---- MODULE Spec2Model ----
(***************************************************************************)
(* Kumo Cloud integration: the API client (token lifecycle, admission      *)
(* gate, retry loop) and the polling coordinator / command dispatcher.     *)
(*                                                                         *)
(* Time is counted in hundredths of a second, so that the jittered backoff *)
(* min(base * 2^attempt, cap) * (0.75 + random()*0.5) is an exact integer  *)
(* for every jitter draw given in percent.                                 *)
(***************************************************************************)
EXTENDS Integers, Sequences, FiniteSets, TLC

\* ---------------------------------------------------------------- const.py
TOKEN_REFRESH_INTERVAL == 1200
TOKEN_EXPIRY_MARGIN == 300
MAX_CONCURRENT_REQUESTS == 2
RETRY_ATTEMPTS == 3
RETRY_BACKOFF_BASE == 1
RETRY_BACKOFF_MAX == 16
RATE_LIMIT_BACKOFF_BASE == 60
RATE_LIMIT_BACKOFF_MAX == 300
COMMAND_DELAY == 1
max_auth_failures == 3
REQUEST_TIMEOUT == 10   \* asyncio.timeout(10) around every HTTP attempt

\* ------------------------------------------------------------------ bounds
MaxTicks == 1          \* clock advances the model allows
MaxFaults == 3         \* non-success HTTP responses the service may give
MaxOps == 3            \* operations started: polls, commands, direct calls
MaxCmds == 1           \* commands among them
LiveFaults == 2         \* ... and non-success responses given
LiveOps == 2            \* operations started where termination is checked
MaxAttempt == 5        \* consecutive failures followed by the backoff schedule

None == "None"      \* no task / no serial
NoTime == -1        \* a datetime field holding None
NoToken == 0        \* a token field holding None
NoData == <<>>      \* coordinator.data before the first successful poll
Sec(s) == s * 100
TickStep == Sec(TOKEN_REFRESH_INTERVAL - TOKEN_EXPIRY_MARGIN)

Callers == {"a1", "a2", "a3"}      \* direct callers of _request (SpecApi)
Poller == "poll"                   \* the coordinator's scheduled refresh
Commands == {"cmd"}                \* entity command handlers
Tasks == Callers \cup {Poller} \cup Commands

Serials == {"d1", "d2"}
\* zone lists the service may return: the adapter serial of each zone
ZoneLists == { <<"d1", "d1", "d2">>, <<"d1", None>> }
\* Retry-After header of a 429, in seconds (0: header absent)
Hints == {0, 400}
\* 100 * (0.75 + random() * 0.5), random() in [0, 1)
Jitters == {75, 120}
\* moments after the login at which the next request is made, around
\* TOKEN_REFRESH_INTERVAL - TOKEN_EXPIRY_MARGIN
RequestTimes == {Sec(890), Sec(900), Sec(910), Sec(950)}
\* the callers of those requests
ClockCallers == {"a1", "a2"}
\* the draws followed by the backoff schedule: both ends of [0.75, 1.25) and
\* two draws inside
JitterDraws == Jitters \cup {100, 124}
\* the base/cap pairs _calculate_backoff is called with
BackoffPairs == {<<RETRY_BACKOFF_BASE, RETRY_BACKOFF_MAX>>,
                 <<RATE_LIMIT_BACKOFF_BASE, RATE_LIMIT_BACKOFF_MAX>>}

VARIABLES
  \* KumoCloudAPI
  access_token, refresh_token, token_expires_at, credentials,
  permits, lock_owner, consecutive_rate_limits,
  \* the host: calls of the token-update callback, the pair it persisted
  cb_calls, persisted,
  \* KumoCloudDataUpdateCoordinator
  rate_limited, rate_limit_until, auth_failures,
  zones, devices, device_profiles, data,
  \* tasks: position, the request being made, _request's locals, last outcome
  pc, stage, attempt, bearer, held,
  \* locals of the running poll cycle
  p_zones, p_devices, p_profiles, p_serial, p_detail, p_calls, c_serial,
  \* host and service
  now, ticks, issued, faults, ops, cmds, polls, cmd_seq,
  \* what the step just taken returned, raised or signalled to the host
  event,
  \* history
  refresh_posts, due_at, rl_floor, auth_run, signals_in_run,
  \* the backoff schedule of one run of consecutive failures
  backoff

tokenVars == <<access_token, refresh_token, token_expires_at, credentials,
               issued, cb_calls, persisted>>
apiVars == <<tokenVars, permits, lock_owner, consecutive_rate_limits>>
clockVars == <<now, ticks>>
reqVars == <<attempt, bearer, held>>
coordVars == <<rate_limited, rate_limit_until, auth_failures,
               zones, devices, device_profiles, data>>
pollVars == <<p_zones, p_devices, p_profiles, p_serial, p_detail, p_calls,
              c_serial>>
budgetVars == <<ops, cmds, polls>>
histVars == <<rl_floor, auth_run, signals_in_run>>
programVars == <<apiVars, reqVars, coordVars, pollVars, budgetVars, histVars,
                 pc, stage, event, cmd_seq, clockVars, faults, refresh_posts,
                 due_at>>
vars == <<programVars, backoff>>

Min(a, b) == IF a < b THEN a ELSE b
Max(a, b) == IF a > b THEN a ELSE b
RECURSIVE Pow2(_)
Pow2(n) == IF n = 0 THEN 1 ELSE 2 * Pow2(n - 1)

Empty == [s \in {} |-> 0]
Put(f, k, v) == [x \in (DOMAIN f) \cup {k} |-> IF x = k THEN v ELSE f[x]]

\* outcomes of a _request call
Ok == [kind |-> "ok", val |-> 0]
Raised(k) == [kind |-> k, val |-> 0]
RateLimitError(retry_after) == [kind |-> "RateLimitError", val |-> retry_after]

\* ------------------------------------------------------------ api.py: pure
\* _calculate_backoff with the cap left out
calculate_backoff_nocap(n, base, max_delay, j) ==
  base * Pow2(n) * j

\* _calculate_backoff with jitter; j = 100 * (0.75 + random() * 0.5).
\* The result is in hundredths of a second.
calculate_backoff(n, base, max_delay, j) ==
  Min(base * Pow2(n), max_delay) * j

\* a variant of the retry-after: the server's hint alone
final_retry_after_hintonly(hint, k, j) == Sec(hint)

\* final_retry_after = max(retry_after or 0, calculated_backoff), computed
\* after _consecutive_rate_limits was incremented to k
final_retry_after(hint, k, j) ==
  Max(Sec(hint),
      calculate_backoff(k - 1, RATE_LIMIT_BACKOFF_BASE,
                        RATE_LIMIT_BACKOFF_MAX, j))

\* a variant of the expiry test: the margin is left out
TokenDue_nomargin(t, expires_at) ==
  /\ expires_at # NoTime
  /\ t >= expires_at

\* a variant of the expiry test: an unknown expiry counts as due
TokenDue_unknowndue(t, expires_at) ==
  \/ expires_at = NoTime
  \/ t + Sec(TOKEN_EXPIRY_MARGIN) >= expires_at

\* the expiry test of _ensure_token_valid
TokenDue(t, expires_at) ==
  /\ expires_at # NoTime
  /\ t + Sec(TOKEN_EXPIRY_MARGIN) >= expires_at

\* a variant of the re-check under the lock: no re-check at all
StillDue_unchecked(t, expires_at) == TRUE

\* the same test again once _token_refresh_lock is held
StillDue(t, expires_at) == TokenDue(t, expires_at)

\* a variant of the lock: acquire never waits
LockFree_always(owner) == TRUE

\* asyncio.Lock: acquire proceeds iff nobody holds the lock
LockFree(owner) == owner = None

\* a variant of the gate: acquire never waits
GateOpen_always(free) == TRUE

\* a variant of the gate: a request is admitted only when no permit is out
GateOpen_exclusive(free) == free = MAX_CONCURRENT_REQUESTS

\* the admission gate: asyncio.Semaphore.acquire proceeds iff a permit is free
GateOpen(free) == free > 0

\* no failure yet: nothing to back off from
NoBackoff == [base |-> 0, cap |-> 0, n |-> 0, j |-> 0, delay |-> -1,
              prev |-> -1]

\* ------------------------------------------------------------- event loop
\* a task that is ready to run: it waits for no response, no sleep and no
\* other task
Runnable(t) ==
  \/ pc[t] = "ensure"
  \/ pc[t] = "lock_wait" /\ LockFree(lock_owner)
  \/ pc[t] \in {"rf_sem", "login_sem", "sem_wait"} /\ GateOpen(permits)

\* the loop runs the ready tasks before it polls for responses and timers
Quiet == \A t \in Tasks : ~Runnable(t)

\* ------------------------------------------------ __init__.py: rate limit
\* a variant of the property: the window is never seen as active
is_rate_limited_never == FALSE

\* is_rate_limited
is_rate_limited ==
  IF ~rate_limited \/ rate_limit_until = NoTime
  THEN FALSE
  ELSE now < rate_limit_until

\* a variant of the check: the window is never honoured
check_rate_limit_never == FALSE

\* _check_and_clear_rate_limit: its return value ...
check_rate_limit ==
  IF ~rate_limited \/ rate_limit_until = NoTime
  THEN FALSE
  ELSE IF now >= rate_limit_until THEN FALSE ELSE TRUE

\* a variant of the check: an expired window is left in place
window_after_check_stale == <<rate_limited, rate_limit_until>>

\* ... and the window it leaves (cleared when expired)
window_after_check ==
  IF rate_limited /\ rate_limit_until # NoTime /\ now >= rate_limit_until
  THEN <<FALSE, NoTime>>
  ELSE <<rate_limited, rate_limit_until>>

\* a variant of the window: it ends the moment it is opened
set_rate_limit_now(retry_after) == <<TRUE, now>>

\* _set_rate_limit
set_rate_limit(retry_after) == <<TRUE, now + retry_after>>

\* a variant of the clearing: the window is left as it is
clear_rate_limit_keep == <<rate_limited, rate_limit_until>>

\* _clear_rate_limit
clear_rate_limit == <<FALSE, NoTime>>

\* retry_after = err.retry_after or 60
retry_or_default(v) == IF v = 0 THEN Sec(60) ELSE v

\* a variant of the threshold test: one failure late
reauth_due_late(failures) == failures > max_auth_failures

\* a variant of the threshold test: the signal is given at the threshold only
reauth_due_once(failures) == failures = max_auth_failures

\* the auth-failure branch: whether async_start_reauth is called for the
\* counter after the failure
reauth_due(failures) == failures >= max_auth_failures

\* ----------------------------------------------------- __init__.py: cache
\* a zone; adapter.present is the test `"adapter" in zone and zone["adapter"]`,
\* adapter.reported stands for the fields the device call also reports
Zone(i, s, v) ==
  [id |-> i,
   adapter |-> IF s = None
               THEN [present |-> FALSE, deviceSerial |-> None, reported |-> 0]
               ELSE [present |-> TRUE, deviceSerial |-> s, reported |-> v]]

ZonesOf(zl, v) == [i \in 1..Len(zl) |-> Zone(i, zl[i], v)]

HasAdapter(z) == z.adapter.present

\* a variant of the loop: seen_serials is never consulted
NextSerial_noseen(zs, seen) ==
  LET idx == {i \in 1..Len(zs) : HasAdapter(zs[i])}
  IN IF idx = {} THEN None
     ELSE zs[CHOOSE i \in idx : \A k \in idx : i <= k].adapter.deviceSerial

\* the next zone of the loop whose device was not fetched yet
NextSerial(zs, seen) ==
  LET idx == {i \in 1..Len(zs) :
                HasAdapter(zs[i]) /\ zs[i].adapter.deviceSerial \notin seen}
  IN IF idx = {} THEN None
     ELSE zs[CHOOSE i \in idx : \A k \in idx : i <= k].adapter.deviceSerial

ZoneSerials(zs) ==
  {zs[i].adapter.deviceSerial : i \in {k \in 1..Len(zs) : HasAdapter(zs[k])}}

\* a variant of the zone loop without its break: every zone of the serial
\* is patched
PatchZones_all(zs, s, v) ==
  [i \in 1..Len(zs) |->
     IF HasAdapter(zs[i]) /\ zs[i].adapter.deviceSerial = s
     THEN [zs[i] EXCEPT !.adapter.reported = v]
     ELSE zs[i]]

\* async_refresh_device: patch the first zone whose adapter has the serial
PatchZones(zs, s, v) ==
  LET idx == {i \in 1..Len(zs) :
                HasAdapter(zs[i]) /\ zs[i].adapter.deviceSerial = s}
  IN IF idx = {} THEN zs
     ELSE LET f == CHOOSE i \in idx : \A k \in idx : i <= k
          IN [zs EXCEPT ![f].adapter.reported = v]

CacheOf(zs, ds, ps) ==
  << [zones |-> zs, devices |-> ds, device_profiles |-> ps] >>

\* the API calls of the running poll cycle, per device serial
NoCalls == [s \in Serials |-> [detail |-> 0, profile |-> 0]]

\* ------------------------------------------------- outcome of an operation
NoEvent == [task |-> None, outcome |-> "none", reauth |-> FALSE,
            notify |-> FALSE]

\* the operation goes on: nothing reaches the host
Goto(t, newpc, newstage) ==
  /\ pc' = [pc EXCEPT ![t] = newpc]
  /\ stage' = [stage EXCEPT ![t] = newstage]
  /\ event' = NoEvent

\* the operation ends with outcome res; reauth: async_start_reauth was
\* called; notify: async_update_listeners was called
Finish(t, res, reauth, notify) ==
  /\ pc' = [pc EXCEPT ![t] = "idle"]
  /\ stage' = [stage EXCEPT ![t] = "none"]
  /\ event' = [task |-> t, outcome |-> res, reauth |-> reauth,
               notify |-> notify]

ResetPollLocals ==
  /\ p_zones' = <<>>
  /\ p_devices' = Empty
  /\ p_profiles' = Empty
  /\ p_serial' = None
  /\ p_detail' = 0
  /\ p_calls' = NoCalls

\* the KumoCloudRateLimitError handlers: _set_rate_limit(err.retry_after or 60)
OpenWindow(o) ==
  LET w == set_rate_limit(retry_or_default(o.val))
  IN /\ rate_limited' = w[1]
     /\ rate_limit_until' = w[2]
     /\ rl_floor' = Max(rl_floor, now + o.val)

\* the KumoCloudAuthError handlers: count the failure
CountAuthFailure ==
  /\ auth_failures' = auth_failures + 1
  /\ auth_run' = auth_run + 1
  /\ signals_in_run' =
       signals_in_run + (IF reauth_due(auth_failures + 1) THEN 1 ELSE 0)

\* what the except clauses of an operation do to the window and the counter
HandleError(o) ==
  CASE o.kind = "RateLimitError" ->
         /\ OpenWindow(o)
         /\ UNCHANGED <<auth_failures, auth_run, signals_in_run>>
    [] o.kind = "AuthError" ->
         /\ CountAuthFailure
         /\ UNCHANGED <<rate_limited, rate_limit_until, rl_floor>>
    [] OTHER ->
         UNCHANGED <<rate_limited, rate_limit_until, auth_failures, histVars>>

Signals(o) == o.kind = "AuthError" /\ reauth_due(auth_failures + 1)

\* ---------------------------------- _async_update_data, after each request
\* a variant of the success path: only the zones are swapped in, the device
\* entries stay those of the cycle before
PollPublish_zonesonly(zs, ds, ps) ==
  /\ rate_limited' = clear_rate_limit[1]
  /\ rate_limit_until' = clear_rate_limit[2]
  /\ auth_failures' = 0
  /\ zones' = zs
  /\ data' = CacheOf(zs, devices, device_profiles)
  /\ Finish(Poller, "ok", FALSE, FALSE)
  /\ ResetPollLocals
  /\ auth_run' = 0
  /\ signals_in_run' = 0
  /\ UNCHANGED <<devices, device_profiles, cmd_seq, rl_floor, c_serial>>

\* success: clear the window, reset the counter, swap the cache in
PollPublish(zs, ds, ps) ==
  /\ rate_limited' = clear_rate_limit[1]
  /\ rate_limit_until' = clear_rate_limit[2]
  /\ auth_failures' = 0
  /\ zones' = zs
  /\ devices' = ds
  /\ device_profiles' = ps
  /\ data' = CacheOf(zs, ds, ps)
  /\ Finish(Poller, "ok", FALSE, FALSE)
  /\ ResetPollLocals
  /\ auth_run' = 0
  /\ signals_in_run' = 0
  /\ UNCHANGED <<cmd_seq, rl_floor, c_serial>>

\* the loop over the zones: fetch the next device not seen yet, or finish
PollAdvance(zs, ds, ps) ==
  LET s == NextSerial(zs, DOMAIN ds)
  IN IF s # None
     THEN /\ Goto(Poller, "ensure", "detail")
          /\ p_zones' = zs
          /\ p_devices' = ds
          /\ p_profiles' = ps
          /\ p_serial' = s
          /\ p_detail' = 0
          /\ p_calls' = [p_calls EXCEPT ![s].detail = @ + 1]
          /\ UNCHANGED <<coordVars, cmd_seq, histVars, c_serial>>
     ELSE PollPublish(zs, ds, ps)

\* zones = await self.api.get_zones(self.site_id)
PollZonesOk ==
  \E zl \in ZoneLists : PollAdvance(ZonesOf(zl, cmd_seq), Empty, Empty)

\* a variant of the detail step: the fetched detail is written straight
\* into the published devices map
PollDetailOk_inplace ==
  /\ Goto(Poller, "ensure", "profile")
  /\ p_detail' = cmd_seq
  /\ p_calls' = [p_calls EXCEPT ![p_serial].profile = @ + 1]
  /\ devices' = Put(devices, p_serial, cmd_seq)
  /\ UNCHANGED <<rate_limited, rate_limit_until, auth_failures, zones,
                 device_profiles, data, cmd_seq, histVars, c_serial,
                 p_zones, p_devices, p_profiles, p_serial>>

\* a variant of the detail step: the loop goes on to the next device without
\* fetching the profile
PollDetailOk_skipprofile ==
  PollAdvance(p_zones, Put(p_devices, p_serial, cmd_seq), p_profiles)

\* device_detail = await self.api.get_device_details(device_serial)
PollDetailOk ==
  /\ Goto(Poller, "ensure", "profile")
  /\ p_detail' = cmd_seq
  /\ p_calls' = [p_calls EXCEPT ![p_serial].profile = @ + 1]
  /\ UNCHANGED <<coordVars, cmd_seq, histVars, c_serial,
                 p_zones, p_devices, p_profiles, p_serial>>

\* device_profile = await self.api.get_device_profile(device_serial);
\* devices[device_serial] = ...; device_profiles[device_serial] = ...
PollProfileOk ==
  PollAdvance(p_zones, Put(p_devices, p_serial, p_detail),
              Put(p_profiles, p_serial, "profile"))

\* what a rate-limited cycle gives the host: the except clause logs that
\* cached data is used and raises UpdateFailed
RateLimitedOutcome(cached) == "UpdateFailed"

\* a variant of the except clauses without the final `except Exception`:
\* an error that is not one of the three API errors reaches the host as it is
PollFail_noexcept(o) ==
  /\ Finish(Poller,
            IF o.kind \in {"RateLimitError", "AuthError", "ConnectionError"}
            THEN "UpdateFailed" ELSE o.kind,
            Signals(o), FALSE)
  /\ ResetPollLocals
  /\ HandleError(o)
  /\ UNCHANGED <<zones, devices, device_profiles, data, c_serial, cmd_seq>>

\* the except clauses of _async_update_data
PollFail(o) ==
  /\ Finish(Poller,
            IF o.kind = "RateLimitError"
            THEN RateLimitedOutcome(data # NoData) ELSE "UpdateFailed",
            Signals(o), FALSE)
  /\ ResetPollLocals
  /\ HandleError(o)
  /\ UNCHANGED <<zones, devices, device_profiles, data, c_serial, cmd_seq>>

PollComplete(o) ==
  IF o.kind = "ok"
  THEN CASE stage[Poller] = "zones" -> PollZonesOk
         [] stage[Poller] = "detail" -> PollDetailOk
         [] OTHER -> PollProfileOk
  ELSE PollFail(o)

\* ------------------------------------------- send_command, after the write
\* a variant of the success path: the counter is left as it is
CommandOk_noreset(t) ==
  /\ cmd_seq' = cmd_seq + 1
  /\ Goto(t, "settle", "none")
  /\ UNCHANGED <<auth_failures, auth_run, signals_in_run>>
  /\ UNCHANGED <<rate_limited, rate_limit_until, zones, devices,
                 device_profiles, data, pollVars, rl_floor>>

\* the write succeeded: reset the counter, then asyncio.sleep(COMMAND_DELAY)
CommandOk(t) ==
  /\ auth_failures' = 0
  /\ cmd_seq' = cmd_seq + 1
  /\ Goto(t, "settle", "none")
  /\ auth_run' = 0
  /\ signals_in_run' = 0
  /\ UNCHANGED <<rate_limited, rate_limit_until, zones, devices,
                 device_profiles, data, pollVars, rl_floor>>

\* the except clauses of send_command: update the shared state, re-raise
CommandFail(t, o) ==
  /\ Finish(t, o.kind, Signals(o), FALSE)
  /\ HandleError(o)
  /\ c_serial' = [c_serial EXCEPT ![t] = None]
  /\ UNCHANGED <<zones, devices, device_profiles, data, p_zones, p_devices,
                 p_profiles, p_serial, p_detail, p_calls, cmd_seq>>

\* ------------------------------- async_refresh_device, after the request
\* a variant of the success path: the listeners are not notified
RefreshDeviceOk_silent(t) ==
  LET s == c_serial[t]
      ds == Put(devices, s, cmd_seq)
      zs == PatchZones(zones, s, cmd_seq)
  IN /\ devices' = ds
     /\ zones' = zs
     /\ data' = CacheOf(zs, ds, device_profiles)
     /\ Finish(t, "ok", FALSE, FALSE)
     /\ c_serial' = [c_serial EXCEPT ![t] = None]
     /\ UNCHANGED <<rate_limited, rate_limit_until, auth_failures,
                    device_profiles, p_zones, p_devices, p_profiles, p_serial,
                    p_detail, p_calls, cmd_seq, histVars>>

RefreshDeviceOk(t) ==
  LET s == c_serial[t]
      ds == Put(devices, s, cmd_seq)
      zs == PatchZones(zones, s, cmd_seq)
  IN /\ devices' = ds
     /\ zones' = zs
     /\ data' = CacheOf(zs, ds, device_profiles)
     /\ Finish(t, "ok", FALSE, TRUE)
     /\ c_serial' = [c_serial EXCEPT ![t] = None]
     /\ UNCHANGED <<rate_limited, rate_limit_until, auth_failures,
                    device_profiles, p_zones, p_devices, p_profiles, p_serial,
                    p_detail, p_calls, cmd_seq, histVars>>

\* a variant of the except clauses: the error is re-raised to the caller
RefreshDeviceFail_raises(t, o) ==
  /\ Finish(t, o.kind, FALSE, FALSE)
  /\ c_serial' = [c_serial EXCEPT ![t] = None]
  /\ UNCHANGED <<auth_failures, zones, devices, device_profiles, data,
                 p_zones, p_devices, p_profiles, p_serial, p_detail, p_calls,
                 cmd_seq, auth_run, signals_in_run>>
  /\ IF o.kind = "RateLimitError"
     THEN OpenWindow(o)
     ELSE UNCHANGED <<rate_limited, rate_limit_until, rl_floor>>

\* KumoCloudRateLimitError opens the window, anything else is logged
RefreshDeviceFail(t, o) ==
  /\ Finish(t, "ok", FALSE, FALSE)
  /\ c_serial' = [c_serial EXCEPT ![t] = None]
  /\ UNCHANGED <<auth_failures, zones, devices, device_profiles, data,
                 p_zones, p_devices, p_profiles, p_serial, p_detail, p_calls,
                 cmd_seq,
                 auth_run, signals_in_run>>
  /\ IF o.kind = "RateLimitError"
     THEN OpenWindow(o)
     ELSE UNCHANGED <<rate_limited, rate_limit_until, rl_floor>>

\* a direct caller of _request gets the result or the exception
CallerDone(t, o) ==
  /\ Finish(t, o.kind, FALSE, FALSE)
  /\ UNCHANGED <<coordVars, pollVars, cmd_seq, histVars>>

\* the continuation of the awaiting operation
Complete(t, o) ==
  CASE t = Poller -> PollComplete(o)
    [] t \in Callers -> CallerDone(t, o)
    [] stage[t] = "command" -> IF o.kind = "ok" THEN CommandOk(t)
                                ELSE CommandFail(t, o)
    [] OTHER -> IF o.kind = "ok" THEN RefreshDeviceOk(t)
                ELSE RefreshDeviceFail(t, o)

\* ------------------------------------------------------------------ api.py
\* responses of the service to an authenticated request
ReqResponses ==
  [status : {"200", "401", "500", "timeout"}, hint : {0}, jitter : {100}]
    \cup [status : {"429"}, hint : Hints, jitter : Jitters]

\* ... to POST /refresh: a 200 may lack the "refresh" or the "access" field
RefreshResponses ==
  ReqResponses \cup
  [status : {"200_no_refresh", "200_no_access"}, hint : {0}, jitter : {100}]

\* ... to POST /login: a 200 may lack the token fields
LoginResponses ==
  ReqResponses \cup
  [status : {"403", "200_no_token"}, hint : {0}, jitter : {100}]

Fault(r) == IF r.status = "200" THEN 0 ELSE 1

\* the task stays inside _request
Stay(t, newpc) ==
  /\ pc' = [pc EXCEPT ![t] = newpc]
  /\ event' = NoEvent
  /\ UNCHANGED <<stage, coordVars, pollVars, cmd_seq, histVars>>

\* _request returns or raises: every `async with` is left, the awaiting
\* operation continues
EndRequest(t, o) ==
  /\ attempt' = [attempt EXCEPT ![t] = 0]
  /\ bearer' = [bearer EXCEPT ![t] = NoToken]
  /\ permits' = permits + held[t]
  /\ held' = [held EXCEPT ![t] = 0]
  /\ lock_owner' = IF lock_owner = t THEN None ELSE lock_owner
  /\ due_at' = [due_at EXCEPT ![t] = NoTime]
  /\ Complete(t, o)

\* _ensure_token_valid returned: build the Authorization header, enter the
\* retry loop
EnterLoop(t) ==
  /\ Stay(t, "sem_wait")
  /\ attempt' = [attempt EXCEPT ![t] = 0]
  /\ bearer' = [bearer EXCEPT ![t] = access_token']

\* a variant of the notification: the callback is not called
notify_token_update_skipped(raises) == UNCHANGED <<cb_calls, persisted>>

\* _notify_token_update: the callback gets the stored pair and persists
\* it, or raises, which is logged and swallowed
notify_token_update(raises) ==
  /\ cb_calls' = cb_calls + 1
  /\ persisted' = IF raises THEN persisted
                  ELSE <<access_token', refresh_token'>>

\* login / refresh stored a new pair, then notified the host
StorePair ==
  /\ issued' = issued + 1
  /\ access_token' = issued + 1
  /\ refresh_token' = issued + 1
  /\ token_expires_at' = now + Sec(TOKEN_REFRESH_INTERVAL)
  /\ consecutive_rate_limits' = 0
  /\ \E raises \in BOOLEAN : notify_token_update(raises)
  /\ UNCHANGED credentials

\* a variant of the 429 branch: the 429 is not counted
Raise429_nocount(t, r) ==
  /\ UNCHANGED consecutive_rate_limits
  /\ EndRequest(t, RateLimitError(
       final_retry_after(r.hint, consecutive_rate_limits + 1, r.jitter)))

\* the 429 branch: count it and raise with the final retry-after
Raise429(t, r) ==
  /\ consecutive_rate_limits' = consecutive_rate_limits + 1
  /\ EndRequest(t, RateLimitError(
       final_retry_after(r.hint, consecutive_rate_limits + 1, r.jitter)))

\* inside `async with self._token_refresh_lock`: re-check, then
\* refresh_access_token up to its first request; d: when the first check
\* found the token due
LockedSection(t, d) ==
  IF ~StillDue(now, token_expires_at)
  THEN /\ EnterLoop(t)
       /\ due_at' = [due_at EXCEPT ![t] = d]
       /\ UNCHANGED <<held, permits, lock_owner>>
  ELSE IF refresh_token = NoToken /\ ~credentials
  THEN EndRequest(t, Raised("AuthError"))
  ELSE /\ Stay(t, IF refresh_token = NoToken THEN "login_sem" ELSE "rf_sem")
       /\ lock_owner' = t
       /\ attempt' = [attempt EXCEPT ![t] = 0]
       /\ due_at' = [due_at EXCEPT ![t] = d]
       /\ UNCHANGED <<bearer, held, permits>>

\* a variant of _ensure_token_valid without the test of access_token
ensure_token_valid_notest(t) ==
  /\ pc[t] = "ensure"
  /\ UNCHANGED <<tokenVars, consecutive_rate_limits, clockVars, backoff, faults,
                 refresh_posts, budgetVars>>
  /\ IF ~TokenDue(now, token_expires_at)
     THEN /\ EnterLoop(t)
          /\ UNCHANGED <<held, permits, lock_owner, due_at>>
     ELSE IF LockFree(lock_owner)
     THEN LockedSection(t, now)
     ELSE /\ Stay(t, "lock_wait")
          /\ due_at' = [due_at EXCEPT ![t] = now]
          /\ UNCHANGED <<reqVars, permits, lock_owner>>

\* _request up to the first check of _ensure_token_valid; a free lock is
\* taken without yielding to the loop
ensure_token_valid(t) ==
  /\ pc[t] = "ensure"
  /\ UNCHANGED <<tokenVars, consecutive_rate_limits, clockVars, backoff, faults,
                 refresh_posts, budgetVars>>
  /\ IF access_token = NoToken
     THEN EndRequest(t, Raised("AuthError"))
     ELSE IF ~TokenDue(now, token_expires_at)
     THEN /\ EnterLoop(t)
          /\ UNCHANGED <<held, permits, lock_owner, due_at>>
     ELSE IF LockFree(lock_owner)
     THEN LockedSection(t, now)
     ELSE /\ Stay(t, "lock_wait")
          /\ due_at' = [due_at EXCEPT ![t] = now]
          /\ UNCHANGED <<reqVars, permits, lock_owner>>

\* the lock was released: a waiting task enters the locked section
lock_acquire(t) ==
  /\ pc[t] = "lock_wait"
  /\ LockFree(lock_owner)
  /\ UNCHANGED <<tokenVars, consecutive_rate_limits, clockVars, backoff, faults,
                 refresh_posts, budgetVars>>
  /\ LockedSection(t, due_at[t])

\* refresh_access_token: async with self._request_semaphore, session.post
refresh_send(t) ==
  /\ pc[t] = "rf_sem"
  /\ GateOpen(permits)
  /\ permits' = permits - 1
  /\ held' = [held EXCEPT ![t] = held[t] + 1]
  /\ refresh_posts' = refresh_posts + 1
  /\ Stay(t, "rf_wait")
  /\ UNCHANGED <<tokenVars, consecutive_rate_limits, lock_owner, attempt,
                 bearer, due_at, clockVars, backoff, faults, budgetVars>>

\* a variant of the retry loop: it never gives up
Transient_endless(t, sleeppc) ==
  /\ Stay(t, sleeppc)
  /\ permits' = permits + held[t]
  /\ held' = [held EXCEPT ![t] = 0]
  /\ UNCHANGED <<attempt, bearer, lock_owner, due_at>>

\* a variant of the retry loop: the first transient failure is final
Transient_noretry(t, sleeppc) == EndRequest(t, Raised("ConnectionError"))

\* a transient failure of an attempt: leave the gate, sleep or give up
Transient(t, sleeppc) ==
  IF attempt[t] < RETRY_ATTEMPTS - 1
  THEN /\ Stay(t, sleeppc)
       /\ permits' = permits + held[t]
       /\ held' = [held EXCEPT ![t] = 0]
       /\ UNCHANGED <<attempt, bearer, lock_owner, due_at>>
  ELSE EndRequest(t, Raised("ConnectionError"))

\* refresh_access_token: the response of one attempt
refresh_response(t, r) ==
  /\ pc[t] = "rf_wait"
  /\ Quiet
  /\ faults + Fault(r) <= MaxFaults
  /\ faults' = faults + Fault(r)
  /\ UNCHANGED <<clockVars, backoff, refresh_posts, budgetVars>>
  /\ CASE r.status = "429" ->
            /\ Raise429(t, r)
            /\ UNCHANGED tokenVars
       [] r.status = "401" ->
            /\ UNCHANGED <<tokenVars, consecutive_rate_limits>>
            /\ IF credentials
               THEN /\ Stay(t, "login_sem")
                    /\ UNCHANGED <<reqVars, permits, lock_owner, due_at>>
               ELSE EndRequest(t, Raised("AuthError"))
       [] r.status = "200" ->
            /\ StorePair
            /\ EnterLoop(t)
            /\ permits' = permits + held[t]
            /\ held' = [held EXCEPT ![t] = 0]
            /\ lock_owner' = None
            /\ UNCHANGED due_at
       [] r.status = "200_no_refresh" ->
            \* self.access_token = result["access"], then KeyError
            /\ issued' = issued + 1
            /\ access_token' = issued + 1
            /\ UNCHANGED <<refresh_token, token_expires_at, credentials,
                           consecutive_rate_limits, cb_calls, persisted>>
            /\ EndRequest(t, Raised("KeyError"))
       [] r.status = "200_no_access" ->
            /\ UNCHANGED <<tokenVars, consecutive_rate_limits>>
            /\ EndRequest(t, Raised("KeyError"))
       [] OTHER ->
            /\ UNCHANGED <<tokenVars, consecutive_rate_limits>>
            /\ Transient(t, "rf_sleep")

\* await asyncio.sleep(backoff), next attempt
refresh_retry(t) ==
  /\ pc[t] = "rf_sleep"
  /\ Quiet
  /\ Stay(t, "rf_sem")
  /\ attempt' = [attempt EXCEPT ![t] = attempt[t] + 1]
  /\ UNCHANGED <<apiVars, bearer, held, due_at, clockVars, backoff, faults,
                 refresh_posts, budgetVars>>

\* login: async with self._request_semaphore, session.post
login_send(t) ==
  /\ pc[t] = "login_sem"
  /\ GateOpen(permits)
  /\ permits' = permits - 1
  /\ held' = [held EXCEPT ![t] = held[t] + 1]
  /\ Stay(t, "login_wait")
  /\ UNCHANGED <<tokenVars, consecutive_rate_limits, lock_owner, attempt,
                 bearer, due_at, clockVars, backoff, faults, refresh_posts, budgetVars>>

\* login: the response
login_response(t, r) ==
  /\ pc[t] = "login_wait"
  /\ Quiet
  /\ faults + Fault(r) <= MaxFaults
  /\ faults' = faults + Fault(r)
  /\ UNCHANGED <<clockVars, backoff, refresh_posts, budgetVars>>
  /\ CASE r.status = "429" ->
            /\ Raise429(t, r)
            /\ UNCHANGED tokenVars
       [] r.status = "403" ->
            /\ UNCHANGED <<tokenVars, consecutive_rate_limits>>
            /\ EndRequest(t, Raised("AuthError"))
       [] r.status = "200" ->
            /\ StorePair
            /\ EnterLoop(t)
            /\ permits' = permits + held[t]
            /\ held' = [held EXCEPT ![t] = 0]
            /\ lock_owner' = None
            /\ UNCHANGED due_at
       [] r.status = "timeout" /\ held[t] = 2 ->
            \* the login called from the 401 branch of refresh_access_token
            \* runs inside the refresh attempt's asyncio.timeout(10), which
            \* expires before the login's own: the TimeoutError is caught
            \* by the refresh loop as a failed refresh attempt
            /\ UNCHANGED <<tokenVars, consecutive_rate_limits>>
            /\ Transient(t, "rf_sleep")
       [] OTHER ->
            /\ UNCHANGED <<tokenVars, consecutive_rate_limits>>
            /\ EndRequest(t, Raised("ConnectionError"))

\* _request: async with self._request_semaphore, session.get / session.post
request_send(t) ==
  /\ pc[t] = "sem_wait"
  /\ GateOpen(permits)
  /\ permits' = permits - 1
  /\ held' = [held EXCEPT ![t] = held[t] + 1]
  /\ Stay(t, "req_wait")
  /\ UNCHANGED <<tokenVars, consecutive_rate_limits, lock_owner, attempt,
                 bearer, due_at, clockVars, backoff, faults, refresh_posts, budgetVars>>

\* a variant of the response handling: a 401 is retried like a 5xx
request_response_retry401(t, r) ==
  /\ pc[t] = "req_wait"
  /\ Quiet
  /\ faults + Fault(r) <= MaxFaults
  /\ faults' = faults + Fault(r)
  /\ UNCHANGED <<tokenVars, clockVars, backoff, refresh_posts, budgetVars>>
  /\ CASE r.status = "429" -> Raise429(t, r)
       [] r.status = "200" ->
            /\ consecutive_rate_limits' = 0
            /\ EndRequest(t, Ok)
       [] OTHER ->
            /\ UNCHANGED consecutive_rate_limits
            /\ Transient(t, "req_sleep")

\* _request: the response of one attempt (_handle_response_status,
\* raise_for_status, the except clauses)
request_response(t, r) ==
  /\ pc[t] = "req_wait"
  /\ Quiet
  /\ faults + Fault(r) <= MaxFaults
  /\ faults' = faults + Fault(r)
  /\ UNCHANGED <<tokenVars, clockVars, backoff, refresh_posts, budgetVars>>
  /\ CASE r.status = "429" -> Raise429(t, r)
       [] r.status = "200" ->
            /\ consecutive_rate_limits' = 0
            /\ EndRequest(t, Ok)
       [] r.status = "401" ->
            /\ UNCHANGED consecutive_rate_limits
            /\ EndRequest(t, Raised("AuthError"))
       [] OTHER ->
            /\ UNCHANGED consecutive_rate_limits
            /\ Transient(t, "req_sleep")

\* await asyncio.sleep(backoff), next attempt
request_retry(t) ==
  /\ pc[t] = "req_sleep"
  /\ Quiet
  /\ Stay(t, "sem_wait")
  /\ attempt' = [attempt EXCEPT ![t] = attempt[t] + 1]
  /\ UNCHANGED <<apiVars, bearer, held, due_at, clockVars, backoff, faults,
                 refresh_posts, budgetVars>>

\* ---------------------------------------------------------------- callers
ApiUnchanged ==
  UNCHANGED <<apiVars, reqVars, due_at, clockVars, backoff, faults, refresh_posts>>

\* a direct call of an API method (get_account_info, get_sites, ...)
api_call(t) ==
  /\ pc[t] = "idle"
  /\ Quiet
  /\ ops < MaxOps
  /\ ops' = ops + 1
  /\ Goto(t, "ensure", "call")
  /\ ApiUnchanged
  /\ UNCHANGED <<coordVars, pollVars, cmd_seq, histVars, polls, cmds>>

\* _async_update_data up to its first request. After a failed first refresh
\* the config entry is not set up and this coordinator is dropped.
async_update_data ==
  /\ pc[Poller] = "idle"
  /\ Quiet
  /\ ops < MaxOps
  /\ polls = 0 \/ data # NoData
  /\ ops' = ops + 1
  /\ polls' = 1
  /\ UNCHANGED cmds
  /\ ApiUnchanged
  /\ UNCHANGED <<auth_failures, zones, devices, device_profiles, data,
                 pollVars, cmd_seq, histVars>>
  /\ rate_limited' = window_after_check[1]
  /\ rate_limit_until' = window_after_check[2]
  /\ IF check_rate_limit
     THEN Finish(Poller, IF data # NoData THEN "cached" ELSE "UpdateFailed",
                 FALSE, FALSE)
     ELSE Goto(Poller, "ensure", "zones")

\* KumoCloudDevice.send_command up to its request; the entities exist once
\* the first refresh succeeded
send_command(t, s) ==
  /\ pc[t] = "idle"
  /\ Quiet
  /\ data # NoData
  /\ ops < MaxOps
  /\ cmds < MaxCmds
  /\ s \in ZoneSerials(zones)
  /\ ops' = ops + 1
  /\ cmds' = cmds + 1
  /\ c_serial' = [c_serial EXCEPT ![t] = s]
  /\ Goto(t, "ensure", "command")
  /\ ApiUnchanged
  /\ UNCHANGED <<coordVars, p_zones, p_devices, p_profiles, p_serial,
                 p_detail, p_calls, cmd_seq, histVars, polls>>

\* after asyncio.sleep(COMMAND_DELAY): async_refresh_device up to its request
async_refresh_device(t) ==
  /\ pc[t] = "settle"
  /\ Quiet
  /\ IF is_rate_limited
     THEN /\ Finish(t, "ok", FALSE, FALSE)
          /\ c_serial' = [c_serial EXCEPT ![t] = None]
     ELSE /\ Goto(t, "ensure", "refresh")
          /\ UNCHANGED c_serial
  /\ ApiUnchanged
  /\ UNCHANGED <<coordVars, p_zones, p_devices, p_profiles, p_serial,
                 p_detail, p_calls, cmd_seq, histVars, budgetVars>>

\* ------------------------------------------------------------------ clock
\* time passes between operations: a clock step is longer than any of them
TickBy(d) ==
  /\ ticks < MaxTicks
  /\ \A t \in Tasks : pc[t] = "idle"
  /\ ticks' = ticks + 1
  /\ now' = now + d
  /\ refresh_posts' = 0
  /\ rl_floor' = IF now + d >= rl_floor THEN 0 ELSE rl_floor
  /\ event' = NoEvent
  /\ UNCHANGED <<apiVars, reqVars, coordVars, pollVars, budgetVars,
                 auth_run, signals_in_run, pc, stage, cmd_seq, faults,
                 due_at, backoff>>

Tick == TickBy(TickStep)

\* ------------------------------------------------------------------- init
\* async_setup_entry: a login at setup stores the pair with its expiry;
\* tokens restored from the config entry come without an expiry. The
\* coordinator is either just constructed, its first refresh still to come,
\* or set up with the result of a successful first refresh.
SetupWith(a, r, c, k) ==
  /\ access_token = a
  /\ refresh_token = r
  /\ issued = 1
  /\ token_expires_at \in {Sec(TOKEN_REFRESH_INTERVAL), NoTime}
  /\ credentials = c
  /\ cb_calls = 0
  /\ persisted = <<a, r>>
  /\ permits = MAX_CONCURRENT_REQUESTS
  /\ lock_owner = None
  /\ consecutive_rate_limits = 0
  /\ rate_limited = FALSE
  /\ rate_limit_until = NoTime
  /\ auth_failures = k
  /\ \/ /\ zones = <<>>
        /\ devices = Empty
        /\ device_profiles = Empty
        /\ data = NoData
        /\ polls = 0
     \/ \E zl \in ZoneLists :
          LET zs == ZonesOf(zl, 0)
              ds == [s \in ZoneSerials(zs) |-> 0]
              ps == [s \in ZoneSerials(zs) |-> "profile"]
          IN /\ zones = zs
             /\ devices = ds
             /\ device_profiles = ps
             /\ data = CacheOf(zs, ds, ps)
             /\ polls = 1
  /\ pc = [t \in Tasks |-> "idle"]
  /\ stage = [t \in Tasks |-> "none"]
  /\ attempt = [t \in Tasks |-> 0]
  /\ bearer = [t \in Tasks |-> NoToken]
  /\ held = [t \in Tasks |-> 0]
  /\ event = NoEvent
  /\ p_zones = <<>>
  /\ p_devices = Empty
  /\ p_profiles = Empty
  /\ p_serial = None
  /\ p_detail = 0
  /\ p_calls = NoCalls
  /\ c_serial = [t \in Commands |-> None]
  /\ now = 0
  /\ ticks = 0
  /\ faults = 0
  /\ ops = 0
  /\ cmds = 0
  /\ cmd_seq = 0
  /\ refresh_posts = 0
  /\ due_at = [t \in Tasks |-> NoTime]
  /\ rl_floor = 0
  /\ auth_run = k
  /\ signals_in_run = Max(0, k - max_auth_failures + 1)

\* ... with the pair of the setup login or the restored pair, and the
\* credentials of the config entry
SetupAfter(k) == SetupWith(1, 1, TRUE, k)

\* ... with no authentication failure counted
Setup == SetupAfter(0)

Init ==
  /\ Setup
  /\ backoff = NoBackoff

ApiStep(t) ==
  \/ ensure_token_valid(t)
  \/ lock_acquire(t)
  \/ refresh_send(t)
  \/ \E r \in RefreshResponses : refresh_response(t, r)
  \/ refresh_retry(t)
  \/ login_send(t)
  \/ \E r \in LoginResponses : login_response(t, r)
  \/ request_send(t)
  \/ \E r \in ReqResponses : request_response(t, r)
  \/ request_retry(t)

\* the coordinator with its entities: scheduled polls and commands
Next ==
  \/ async_update_data
  \/ \E t \in Commands : \E s \in Serials : send_command(t, s)
  \/ \E t \in Commands : async_refresh_device(t)
  \/ \E t \in Commands \cup {Poller} : ApiStep(t)
  \/ Tick

Spec == Init /\ [][Next]_vars

\* what the event loop guarantees a task of the coordinator: a task that is
\* ready runs (the ready queue, the lock's and the semaphore's waiter queues
\* are first in first out), every HTTP attempt ends with a response or with
\* its timeout (asyncio.timeout(10), ClientTimeout) and every sleep ends
TaskStep(t) ==
  /\ \/ ApiStep(t)
     \/ t \in Commands /\ async_refresh_device(t)
  /\ faults' <= LiveFaults

\* the coordinator is idle until a request lasting REQUEST_TIMEOUT would
\* reach the refresh margin of the token of the setup login
IdleUntilMargin == TickBy(TickStep - Sec(REQUEST_TIMEOUT))

\* time passes while requests are on the wire: none lasts longer than its
\* asyncio.timeout
Elapse ==
  /\ ticks = MaxTicks
  /\ Quiet
  /\ \E t \in Tasks : pc[t] \in {"req_wait", "rf_wait", "login_wait"}
  /\ ticks' = ticks + 1
  /\ now' = now + Sec(REQUEST_TIMEOUT)
  /\ UNCHANGED <<apiVars, reqVars, coordVars, pollVars, budgetVars, histVars,
                 pc, stage, event, cmd_seq, faults, refresh_posts, due_at,
                 backoff>>

\* a set-up coordinator whose token pair came from the setup login
InitLive ==
  /\ Init
  /\ token_expires_at = Sec(TOKEN_REFRESH_INTERVAL)
  /\ data # NoData

NextLive ==
  \/ ops < LiveOps /\ async_update_data
  \/ ops < LiveOps /\ \E t \in Commands : \E s \in Serials : send_command(t, s)
  \/ \E t \in Commands \cup {Poller} : TaskStep(t)
  \/ IdleUntilMargin
  \/ Elapse

SpecLive ==
  /\ InitLive
  /\ [][NextLive]_vars
  /\ \A t \in Commands \cup {Poller} : WF_vars(TaskStep(t))

\* a set-up coordinator whose last cycles ended with AuthError: the counter
\* stands just below or at the threshold
InitAuth ==
  /\ \E k \in {max_auth_failures - 1, max_auth_failures} : SetupAfter(k)
  /\ data # NoData
  /\ backoff = NoBackoff

SpecAuth == InitAuth /\ [][Next]_vars

\* the API client as its user may hold it: constructed, with or without
\* credentials, with no token, with a refresh token only or with a pair
InitTokens ==
  /\ \E p \in {<<NoToken, NoToken>>, <<NoToken, 1>>, <<1, 1>>} :
       \E c \in BOOLEAN : SetupWith(p[1], p[2], c, 0)
  /\ access_token = NoToken => token_expires_at = NoTime
  /\ data = NoData
  /\ backoff = NoBackoff

\* the API client alone under concurrent direct callers
NextApi ==
  \/ \E t \in Callers : api_call(t)
  \/ \E t \in Callers : ApiStep(t)
  \/ Tick

SpecApi == Init /\ [][NextApi]_vars

SpecTokens == InitTokens /\ [][NextApi]_vars

\* -------------------------------------------- requests after one login
\* login succeeded at time 0: the pair expires TOKEN_REFRESH_INTERVAL later
InitClock ==
  /\ Setup
  /\ token_expires_at = Sec(TOKEN_REFRESH_INTERVAL)
  /\ backoff = NoBackoff

NextClock ==
  \/ \E t \in ClockCallers : api_call(t)
  \/ \E t \in ClockCallers : ApiStep(t)
  \/ \E d \in RequestTimes : TickBy(d)

SpecClock == InitClock /\ [][NextClock]_vars

\* ------------------------------------------------- the backoff schedule
\* delay = min(base * (2 ** attempt), max_delay), then the jitter
backoff_compute ==
  /\ backoff.delay = -1
  /\ backoff' = [backoff EXCEPT !.delay =
                   calculate_backoff(backoff.n, backoff.base, backoff.cap,
                                     backoff.j)]
  /\ UNCHANGED programVars

\* the failure after the sleep: the count goes up by one and the next delay
\* is computed with a fresh draw
backoff_again ==
  /\ backoff.delay # -1
  /\ backoff.n < MaxAttempt
  /\ \E j \in JitterDraws :
       backoff' = [backoff EXCEPT !.n = backoff.n + 1, !.j = j,
                                  !.prev = backoff.delay, !.delay = -1]
  /\ UNCHANGED programVars

\* a first failure of either kind at any count, with any draw
InitBackoff ==
  /\ Setup
  /\ \E p \in BackoffPairs, n \in 0..MaxAttempt, j \in JitterDraws :
       backoff = [base |-> p[1], cap |-> p[2], n |-> n, j |-> j,
                  delay |-> -1, prev |-> -1]

NextBackoff ==
  \/ backoff_compute
  \/ backoff_again

SpecBackoff == InitBackoff /\ [][NextBackoff]_vars

\* ================================================================= claims
\* positions inside refresh_access_token, its fallback login included
RefreshPcs == {"rf_sem", "rf_wait", "rf_sleep", "login_sem", "login_wait"}

\* tasks that found the token due at the first check and went on to the
\* request after _ensure_token_valid returned
Continued == {t \in Tasks : due_at[t] # NoTime /\ bearer[t] # NoToken}

\* C1 as stated: among the callers of one instant that found the token due,
\* no more than one refresh request goes to the network.
C1_ExactlyOneRefresh == refresh_posts <= 1

\* C1, amended: a refresh request is made only while the token is still
\* due and by the holder of the lock, so no refresh follows a successful
\* one; every caller that found the token due and continues holds the pair
\* that the one successful refresh stored. Failed refresh calls may repeat.
C1_OneSuccessfulRefresh ==
  \A t \in Tasks :
    /\ pc[t] \in RefreshPcs =>
         /\ TokenDue(now, token_expires_at)
         /\ lock_owner = t
    /\ t \in Continued =>
         /\ bearer[t] = access_token
         /\ refresh_token = access_token
         /\ token_expires_at = now + Sec(TOKEN_REFRESH_INTERVAL)

\* two callers found the token due, one refresh request was made, both
\* continued
C1_Witness ==
  /\ Cardinality(Continued) >= 2
  /\ refresh_posts = 1

\* positions where a task's HTTP request is in flight
WaitPcs == {"req_wait", "rf_wait", "login_wait"}

InFlight == {t \in Tasks : pc[t] \in WaitPcs}

\* the step sends an HTTP request of task t
Sends(t) == pc[t] \notin WaitPcs /\ pc'[t] \in WaitPcs

\* C2 as stated: once an operation received a RateLimitError with
\* retry-after T at time t, no operation sends an HTTP request before t + T
\* (rl_floor is the latest such t + T).
C2_GlobalBackoff ==
  [][\A t \in Tasks : Sends(t) => now >= rl_floor]_vars

\* a step of the poll cycle
PollStep == pc'[Poller] # pc[Poller]

\* the step is the successful end of a poll cycle
PollPublished == event'.task = Poller /\ event'.outcome = "ok"

\* C3: every step of a poll cycle other than its successful end leaves
\* the published cache (zones, devices, device_profiles, data) unchanged,
\* so a cycle that fails at any step leaves it as the cycle found it.
C3_FailedCycleKeepsCache ==
  [][PollStep /\ ~PollPublished =>
       UNCHANGED <<zones, devices, device_profiles, data>>]_vars

\* a poll cycle has just failed while the service reports newer device
\* state than the cache holds
C3_Witness ==
  /\ event.task = Poller
  /\ event.outcome = "UpdateFailed"
  /\ faults > 0
  /\ data # NoData
  /\ \E s \in DOMAIN devices : devices[s] < cmd_seq

\* C4: the number of HTTP calls in flight never exceeds
\* MAX_CONCURRENT_REQUESTS, whichever call sites they come from, and the
\* free permits account for the permits held.
C4_BoundedInFlight ==
  /\ Cardinality(InFlight) <= MAX_CONCURRENT_REQUESTS
  /\ permits >= 0
  /\ \A t \in Tasks : held[t] >= (IF t \in InFlight THEN 1 ELSE 0)

\* the gate is full and a third caller waits at it
C4_Witness ==
  /\ Cardinality(InFlight) = MAX_CONCURRENT_REQUESTS
  /\ permits = 0
  /\ \E t \in Tasks : pc[t] = "sem_wait"

\* C5: the counter is the number of consecutive AuthError outcomes; below
\* the threshold no re-authentication is signalled, at the third
\* consecutive AuthError it has been signalled exactly once, and a poll or
\* command that succeeds leaves the counter at 0.
C5_ReauthAtThreshold ==
  /\ [](/\ auth_failures = auth_run
        /\ auth_run < max_auth_failures => signals_in_run = 0
        /\ auth_run = max_auth_failures => signals_in_run = 1
        /\ event.reauth => auth_failures >= max_auth_failures)
  /\ [][\A t \in Tasks :
         (PollPublished \/ (pc[t] # "settle" /\ pc'[t] = "settle"))
           => auth_failures' = 0]_vars

\* the third consecutive AuthError has just signalled re-authentication
C5_Witness ==
  /\ auth_run = max_auth_failures
  /\ signals_in_run = 1
  /\ event.reauth
  /\ event.outcome = "UpdateFailed"

Refreshing == {t \in Tasks : pc[t] \in RefreshPcs}

\* the step admits task t, which waited for the lock, to the locked section
Admitted(t) == pc[t] = "lock_wait" /\ pc'[t] # "lock_wait"

\* C6 as stated: a task that waited on the lock while another task
\* refreshed never starts a refresh of its own once admitted.
C6_WaiterNeverRefreshes ==
  [][\A t \in Tasks : Admitted(t) => pc'[t] \notin RefreshPcs]_vars

\* C6, amended: at most one task is inside refresh_access_token (its
\* fallback login included) and it holds the lock; a task that waited is
\* admitted only when the lock is free, and then continues with the stored
\* pair without a refresh if the awaited refresh succeeded, and starts its
\* own refresh if the token is still due because that refresh failed.
C6_ExclusiveRefresh ==
  /\ [](/\ Cardinality(Refreshing) <= 1
        /\ \A t \in Tasks : t \in Refreshing <=> lock_owner = t)
  /\ [][\A t \in Tasks : Admitted(t) =>
         /\ lock_owner = None
         /\ IF TokenDue(now, token_expires_at)
            THEN pc'[t] \in RefreshPcs /\ lock_owner' = t
            ELSE /\ pc'[t] = "sem_wait"
                 /\ bearer'[t] = access_token
                 /\ UNCHANGED <<refresh_posts, lock_owner>>]_vars

\* one task is refreshing while another waits on the lock
C6_Witness ==
  \E t, u \in Tasks : pc[t] = "rf_wait" /\ pc[u] = "lock_wait"

\* the step is the normal return of _ensure_token_valid in task t: the
\* request goes on to its first attempt
EnsureReturned(t) ==
  /\ pc[t] \in {"ensure", "lock_wait", "rf_wait", "login_wait"}
  /\ pc'[t] = "sem_wait"

\* C7 as stated: whenever _ensure_token_valid returns normally, the access
\* token's recorded expiry lies more than TOKEN_EXPIRY_MARGIN ahead.
C7_ExpiryAhead ==
  [][\A t \in Tasks : EnsureReturned(t) =>
       /\ token_expires_at' # NoTime
       /\ token_expires_at' > now' + Sec(TOKEN_EXPIRY_MARGIN)]_vars

\* C8 as stated: in every reachable state the access token and the refresh
\* token belong to the same pair.
C8_PairAtomic == access_token = refresh_token

\* the step is a poll that starts while the window is active and unexpired
SkippedPoll ==
  /\ async_update_data
  /\ rate_limited
  /\ rate_limit_until # NoTime
  /\ now < rate_limit_until

\* C9: a poll that starts while the rate-limit window is active and
\* unexpired sends nothing (the poll task never enters the API client),
\* returns the cache when there is one and fails with UpdateFailed when
\* there is none, and leaves the window, the auth-failure counter and the
\* cache unchanged.
C9_SkippedPollIsInert ==
  [][SkippedPoll =>
       /\ pc'[Poller] = "idle"
       /\ event'.task = Poller
       /\ event'.outcome = (IF data # NoData THEN "cached" ELSE "UpdateFailed")
       /\ UNCHANGED <<rate_limited, rate_limit_until, auth_failures,
                      zones, devices, device_profiles, data>>
       /\ UNCHANGED <<apiVars, reqVars>>]_vars

\* a poll was just skipped inside the window and served the cache
C9_Witness ==
  /\ event.task = Poller
  /\ event.outcome = "cached"
  /\ is_rate_limited
  /\ pc[Poller] = "idle"

\* the step is a poll cycle ending with a RateLimitError from the service
PollRateLimited ==
  /\ pc[Poller] \in WaitPcs
  /\ pc'[Poller] = "idle"
  /\ consecutive_rate_limits' = consecutive_rate_limits + 1

\* C10 as stated: a poll cycle that gets a RateLimitError opens the window
\* and, when a cache exists, serves that cache to the host.
C10_RateLimitedPollServesCache ==
  [][PollRateLimited =>
       /\ rate_limited'
       /\ rate_limit_until' > now
       /\ data # NoData => event'.outcome = "cached"]_vars

\* C11: within one poll cycle no device serial gets more than one
\* get_device_details call or more than one get_device_profile call, only
\* serials referenced by a zone's adapter get any, and a cycle that
\* publishes has made exactly one call of each kind for every distinct
\* serial of its zone list, however many zones reference it.
C11_OneFetchPerSerial ==
  /\ [](\A s \in Serials :
          /\ p_calls[s].detail <= 1
          /\ p_calls[s].profile <= p_calls[s].detail
          /\ p_calls[s].detail = 1 => s \in ZoneSerials(p_zones))
  /\ [][PollPublished =>
         \A s \in Serials :
           p_calls[s] = IF s \in ZoneSerials(zones')
                        THEN [detail |-> 1, profile |-> 1]
                        ELSE [detail |-> 0, profile |-> 0]]_vars

\* in a cycle whose zone list names d1 twice, d1 was fetched once and the
\* loop has moved on to d2
C11_Witness ==
  /\ Len(p_zones) = 3
  /\ p_zones[1].adapter.deviceSerial = p_zones[2].adapter.deviceSerial
  /\ p_serial = "d2"
  /\ p_calls["d1"] = [detail |-> 1, profile |-> 1]

\* C12: a _request attempt answered 429 or 401 ends the call at once,
\* whichever attempt it is: no backoff sleep, no further attempt, the permit
\* released, and RateLimitError respectively AuthError raised to the caller.
C12_NoRetryOf429And401 ==
  [][\A t \in Tasks : \A r \in ReqResponses :
       (r.status \in {"429", "401"} /\ request_response(t, r)) =>
         /\ pc'[t] = "idle"
         /\ attempt'[t] = 0
         /\ held'[t] = 0
         /\ event'.task = t
         /\ event'.outcome = (IF r.status = "429" THEN "RateLimitError"
                               ELSE "AuthError")]_vars

\* the only call made so far was retried once after a transient failure
\* and raised RateLimitError on its second attempt
C12_Witness ==
  /\ event.outcome = "RateLimitError"
  /\ ops = 1
  /\ faults = 2
  /\ refresh_posts = 0
  /\ ticks = 0

\* the step is the successful return of the command write in task t
WriteOk(t) == pc[t] # "settle" /\ pc'[t] = "settle"

\* the step ends the operation of task t
Ends(t) == pc[t] # "idle" /\ pc'[t] = "idle"

\* C13: a command whose write succeeded resets the auth-failure counter to
\* 0 and only then sleeps; after the sleep it calls async_refresh_device,
\* which either skips inside an active window or fetches the device; and
\* however that refresh ends, send_command returns normally.
C13_CommandThenRefresh ==
  [][\A t \in Commands :
       /\ WriteOk(t) =>
            /\ stage[t] = "command"
            /\ pc[t] = "req_wait"
            /\ auth_failures' = 0
       /\ (pc[t] = "settle" /\ pc'[t] # "settle") =>
            IF is_rate_limited
            THEN pc'[t] = "idle" /\ event'.outcome = "ok"
            ELSE pc'[t] = "ensure" /\ stage'[t] = "refresh"
       /\ (stage[t] = "refresh" /\ Ends(t)) =>
            /\ event'.task = t
            /\ event'.outcome = "ok"]_vars

\* the only operation so far is a command whose write succeeded and whose
\* refresh was answered 429: the command returned normally
C13_Witness ==
  /\ event.task \in Commands
  /\ event.outcome = "ok"
  /\ ops = 1
  /\ cmd_seq = 1
  /\ faults = 1
  /\ consecutive_rate_limits = 1
  /\ rate_limited

\* the window a RateLimitError raised in this step opens: now plus the
\* retry-after the 429 branch computed from some Retry-After header and
\* jitter draw and the consecutive count it left
WindowOpened ==
  /\ rate_limited'
  /\ \E h \in Hints : \E j \in Jitters :
       rate_limit_until' =
         now + final_retry_after(h, consecutive_rate_limits', j)

\* C14: when the command write raises, send_command re-raises the error
\* after updating the shared state: a RateLimitError opens the window
\* ending at now + retry-after; an AuthError adds one to the auth-failure
\* counter and signals re-authentication exactly when the counter has
\* reached the threshold; any other error changes neither.
C14_CommandErrorUpdatesState ==
  [][\A t \in Commands :
       (stage[t] = "command" /\ Ends(t)) =>
         /\ event'.task = t
         /\ event'.outcome \in {"RateLimitError", "AuthError",
                                 "ConnectionError", "KeyError"}
         /\ CASE event'.outcome = "RateLimitError" ->
                   /\ WindowOpened
                   /\ ~event'.reauth
                   /\ UNCHANGED auth_failures
              [] event'.outcome = "AuthError" ->
                   /\ auth_failures' = auth_failures + 1
                   /\ event'.reauth = (auth_failures' >= max_auth_failures)
                   /\ UNCHANGED <<rate_limited, rate_limit_until>>
              [] OTHER ->
                   /\ ~event'.reauth
                   /\ UNCHANGED <<rate_limited, rate_limit_until,
                                  auth_failures>>]_vars

\* a command's AuthError was the third consecutive one and signalled
\* re-authentication
C14_Witness ==
  /\ event.task \in Commands
  /\ event.outcome = "AuthError"
  /\ event.reauth
  /\ auth_failures = max_auth_failures

\* the rate-limit window is active and unexpired
WindowActive ==
  /\ rate_limited
  /\ rate_limit_until # NoTime
  /\ now < rate_limit_until

\* C15: async_refresh_device called while the window is active is a
\* no-op: the task sends nothing (it never enters the API client), the
\* cache, the window and the counters stay as they are, listeners are not
\* notified, and the call returns normally.
C15_RefreshSkippedInWindow ==
  [][\A t \in Commands :
       (async_refresh_device(t) /\ WindowActive) =>
         /\ pc'[t] = "idle"
         /\ event'.task = t
         /\ event'.outcome = "ok"
         /\ ~event'.notify
         /\ UNCHANGED <<coordVars, apiVars, reqVars>>]_vars

\* a poll's 429 opened the window, the command's write went through and
\* its refresh was skipped: the one fault so far is that 429
C15_Witness ==
  /\ event.task \in Commands
  /\ event.outcome = "ok"
  /\ ~event.notify
  /\ WindowActive
  /\ cmd_seq = 1
  /\ faults = 1
  /\ consecutive_rate_limits = 0

\* the step ends the targeted refresh of task t
RefreshEnds(t) == stage[t] = "refresh" /\ Ends(t)

\* C16: async_refresh_device returns normally whatever its fetch does; a
\* fetch that succeeds notifies the listeners; a RateLimitError opens the
\* window ending at now + retry-after and leaves the cache and the counter
\* as they are, listeners un-notified; any other error changes nothing.
C16_RefreshNeverAborts ==
  [][\A t \in Commands :
       RefreshEnds(t) =>
         /\ event'.task = t
         /\ event'.outcome = "ok"
         /\ IF consecutive_rate_limits' = consecutive_rate_limits + 1
            THEN /\ WindowOpened
                 /\ ~event'.notify
                 /\ UNCHANGED <<zones, devices, device_profiles, data,
                                auth_failures>>
            ELSE event'.notify \/ UNCHANGED coordVars]_vars

\* the only operation is a command whose refresh was answered 429 with
\* Retry-After 400: the window runs for 400 s, the cache still holds the
\* values from before the command
C16_Witness ==
  /\ event.task \in Commands
  /\ event.outcome = "ok"
  /\ ~event.notify
  /\ ops = 1
  /\ cmd_seq = 1
  /\ consecutive_rate_limits = 1
  /\ rate_limited
  /\ rate_limit_until = now + Sec(400)
  /\ \A s \in DOMAIN devices : devices[s] = 0

\* the step stores a new pair: a login or refresh succeeded
PairStored ==
  /\ access_token' # access_token
  /\ refresh_token' # refresh_token

\* C17: a step that stores a new pair calls the token-update callback
\* exactly once, with the pair just stored (which the host then holds
\* unless the callback raised); whether or not the callback raised, the
\* login or refresh completes and its task goes on to the request with the
\* new access token; and the callback is called at no other time.
C17_CallbackOncePerStoredPair ==
  [][/\ PairStored =>
          /\ cb_calls' = cb_calls + 1
          /\ persisted' \in {persisted, <<access_token', refresh_token'>>}
          /\ \E t \in Tasks :
               /\ pc[t] \in {"rf_wait", "login_wait"}
               /\ pc'[t] = "sem_wait"
               /\ bearer'[t] = access_token'
     /\ cb_calls' # cb_calls => PairStored
     /\ persisted' # persisted => PairStored]_vars

\* a refresh stored pair 2 and its callback raised: the host still holds
\* the old pair, the refreshing task went on with the new access token
C17_Witness ==
  /\ cb_calls = 1
  /\ access_token = 2
  /\ refresh_token = 2
  /\ persisted = <<1, 1>>
  /\ \E t \in Tasks : bearer[t] = 2

\* min(base * 2^n, cap), in seconds
Unjittered(n, base, cap) == Min(base * Pow2(n), cap)

\* the step that computes the delay of a failure that follows another one
ComputedAfterFailure ==
  /\ backoff_compute
  /\ backoff.prev # -1

\* C18 as stated: the delay lies within [0.75, 1.25] times
\* min(base * 2^n, cap), and from one failure to the next the delay never
\* goes down as long as the earlier one was below the cap.
C18_DelayMonotoneUpToCap ==
  /\ [](backoff.delay # -1 =>
          /\ backoff.delay >= 75 * Unjittered(backoff.n, backoff.base,
                                               backoff.cap)
          /\ backoff.delay <= 125 * Unjittered(backoff.n, backoff.base,
                                                backoff.cap))
  /\ [][(ComputedAfterFailure
          /\ Unjittered(backoff.n - 1, backoff.base, backoff.cap)
               < backoff.cap)
         => backoff'.delay >= backoff.prev]_vars

\* C18, amended: for both base/cap pairs and every draw the delay lies within
\* [0.75, 1.25] times min(base * 2^n, cap); the unjittered value never goes
\* down from one failure to the next; the jittered delay never goes down as
\* long as the doubling is not cut by the cap (base * 2^n <= cap). At the
\* step that is cut by the cap, and between capped attempts, the jittered
\* delay may go down.
C18_DelayWithinJitterBand ==
  /\ [](backoff.delay # -1 =>
          /\ backoff.delay >= 75 * Unjittered(backoff.n, backoff.base,
                                               backoff.cap)
          /\ backoff.delay <= 125 * Unjittered(backoff.n, backoff.base,
                                                backoff.cap))
  /\ [][ComputedAfterFailure =>
          /\ Unjittered(backoff.n, backoff.base, backoff.cap)
               >= Unjittered(backoff.n - 1, backoff.base, backoff.cap)
          /\ (backoff.base * Pow2(backoff.n) <= backoff.cap
               => backoff'.delay >= backoff.prev)]_vars

\* the 60/300 schedule at the step cut by the cap: 240 s * 1.20 = 288 s, then
\* 300 s * 0.75 = 225 s
C18_Witness ==
  /\ backoff.base = RATE_LIMIT_BACKOFF_BASE
  /\ backoff.cap = RATE_LIMIT_BACKOFF_MAX
  /\ backoff.n = 3
  /\ backoff.prev = 240 * 120
  /\ backoff.delay = 300 * 75

\* the first check of _ensure_token_valid made s seconds after a login whose
\* pair is still the stored one
FirstCheckAt(t, s) ==
  /\ ensure_token_valid(t)
  /\ now = Sec(s)
  /\ access_token # NoToken
  /\ token_expires_at = Sec(TOKEN_REFRESH_INTERVAL)

\* positions a caller is in once its check has found the token due
RefreshTriggered == {"rf_sem", "login_sem", "lock_wait"}

\* C19 as stated: with the pair of a login at 0 expiring at 1200 s, a request
\* at 950 s goes straight to the network without a refresh and a request at
\* 910 s refreshes first.
C19_NoRefreshAt950 ==
  [][\A t \in Tasks :
       /\ FirstCheckAt(t, 950) => pc'[t] = "sem_wait"
       /\ FirstCheckAt(t, 910) => pc'[t] \in RefreshTriggered]_vars

\* C19, amended: with the pair of a login at 0 expiring at 1200 s, a request
\* triggers a refresh exactly when it is made at 900 s or later (now + 300 s
\* >= expiry): the requests at 900 s, 910 s and 950 s all refresh first, the
\* one at 890 s does not; and a request sent at 900 s or later is sent only
\* after a later pair has replaced the one of the login.
C19_RefreshFromMargin ==
  [][\A t \in Tasks :
       /\ \A s \in {890, 900, 910, 950} :
            FirstCheckAt(t, s) =>
              IF s >= TOKEN_REFRESH_INTERVAL - TOKEN_EXPIRY_MARGIN
              THEN pc'[t] \in RefreshTriggered
              ELSE pc'[t] = "sem_wait"
       /\ (request_send(t) /\ now >= Sec(TOKEN_REFRESH_INTERVAL
                                            - TOKEN_EXPIRY_MARGIN))
            => token_expires_at > Sec(TOKEN_REFRESH_INTERVAL)]_vars

\* the request made at 950 s has posted a refresh and its own request has
\* not been sent yet
C19_Witness ==
  /\ now = Sec(950)
  /\ token_expires_at = Sec(TOKEN_REFRESH_INTERVAL)
  /\ \E t \in Tasks : pc[t] = "rf_wait" /\ bearer[t] = NoToken
  /\ refresh_posts = 1

\* C20: in every state (each is a point where another operation may run) every
\* serial referenced by the adapter of a published zone has an entry in
\* devices and in device_profiles, and coordinator.data holds the same three
\* fields; the step that ends a successful cycle installs zones, devices and
\* device_profiles of that one cycle together, with entries for exactly the
\* serials of its zones.
C20_AtomicSwap ==
  /\ [](/\ ZoneSerials(zones) \subseteq DOMAIN devices
        /\ ZoneSerials(zones) \subseteq DOMAIN device_profiles
        /\ data # NoData => data = CacheOf(zones, devices, device_profiles))
  /\ [][PollPublished =>
          /\ DOMAIN devices' = ZoneSerials(zones')
          /\ DOMAIN device_profiles' = ZoneSerials(zones')]_vars

\* a cycle that ran after a command has just published zones of two devices,
\* the second one fetched by this cycle
C20_Witness ==
  /\ event.task = Poller
  /\ event.outcome = "ok"
  /\ ZoneSerials(zones) = {"d1", "d2"}
  /\ cmd_seq = 1
  /\ devices["d2"] = 1

\* C21: the step that ends a successful poll cycle leaves no window, sets the
\* auth-failure counter to 0 and installs the zones, devices and profiles the
\* cycle fetched in place of the old ones: devices and device_profiles hold
\* entries for the serials of the new zones and for no other serial.
C21_SuccessfulCycleReplacesAll ==
  [][PollPublished =>
       /\ ~rate_limited'
       /\ rate_limit_until' = NoTime
       /\ auth_failures' = 0
       /\ DOMAIN devices' = ZoneSerials(zones')
       /\ DOMAIN device_profiles' = ZoneSerials(zones')
       /\ data' = CacheOf(zones', devices', device_profiles')
       /\ stage[Poller] = "profile" =>
            /\ zones' = p_zones
            /\ devices' = Put(p_devices, p_serial, p_detail)
            /\ device_profiles' = Put(p_profiles, p_serial, "profile")]_vars

\* a cycle has just published zones of one device after a window was opened
\* in the same moment: no window is left and only that device has entries
C21_Witness ==
  /\ event.task = Poller
  /\ event.outcome = "ok"
  /\ rl_floor > now
  /\ ~rate_limited
  /\ auth_failures = 0
  /\ ZoneSerials(zones) = {"d1"}
  /\ DOMAIN devices = {"d1"}

\* the step stores a window (poll, command or targeted refresh got a 429)
\* while one is active
WindowSetWhileActive ==
  /\ is_rate_limited
  /\ rate_limited'
  /\ <<rate_limited, rate_limit_until>>' # <<rate_limited, rate_limit_until>>

\* C22 as stated: a window stored while one is active never ends earlier
\* than the active one.
C22_WindowOnlyExtended ==
  [][WindowSetWhileActive => rate_limit_until' >= rate_limit_until]_vars

\* C23 as stated: no step clears a window that is active and not expired,
\* the successful end of a poll cycle that began before the window was
\* opened included.
C23_ActiveWindowNeverCleared ==
  [][is_rate_limited => rate_limited' /\ rate_limit_until' # NoTime]_vars

\* the stored window has run out
WindowExpired ==
  /\ rate_limited
  /\ rate_limit_until # NoTime
  /\ now >= rate_limit_until

\* C24: the flag is set exactly when an end time is stored; whenever
\* is_rate_limited or _check_and_clear_rate_limit reports the window active
\* the end time is set and lies strictly in the future; and the
\* _check_and_clear_rate_limit at the start of a poll cycle that finds the
\* window expired clears both the flag and the end time.
C24_WindowInvariant ==
  /\ [](/\ rate_limited <=> rate_limit_until # NoTime
        /\ is_rate_limited =>
             rate_limit_until # NoTime /\ rate_limit_until > now
        /\ check_rate_limit =>
             rate_limit_until # NoTime /\ rate_limit_until > now)
  /\ [][(async_update_data /\ WindowExpired) =>
          /\ ~rate_limited'
          /\ rate_limit_until' = NoTime
          /\ pc'[Poller] = "ensure"]_vars

\* a cycle has begun after the window of the last 429 ran out: its check
\* cleared the window
C24_Witness ==
  /\ ticks = 1
  /\ pc[Poller] = "ensure"
  /\ stage[Poller] = "zones"
  /\ consecutive_rate_limits > 0
  /\ ~rate_limited
  /\ rate_limit_until = NoTime

\* the first data request of a poll cycle goes out, the cycle before having
\* failed with an AuthError below the threshold (no command has run, so the
\* counted failures are those of poll cycles)
FirstRequestAfterAuthError ==
  /\ request_send(Poller)
  /\ stage[Poller] = "zones"
  /\ attempt[Poller] = 0
  /\ cmds = 0
  /\ auth_failures >= 1
  /\ auth_failures < max_auth_failures

\* C25 as stated: the cycle after one that failed with an AuthError sends
\* its first data request only after _ensure_token_valid went through a
\* token refresh or re-login.
C25_NextCycleRenewsToken ==
  [][FirstRequestAfterAuthError => due_at[Poller] # NoTime]_vars

\* the step in which task t gets the response r (of an authenticated
\* request, a refresh or a login); "timeout" stands for no response
Responded(t, r) ==
  /\ r.status # "timeout"
  /\ \/ request_response(t, r)
     \/ refresh_response(t, r)
     \/ login_response(t, r)

\* C26 as stated: each 429 adds one to the consecutive-429 counter and every
\* other response, whatever its status, sets it to 0.
C26_ResetOnAnyOtherResponse ==
  [][\A t \in Tasks, r \in RefreshResponses \cup LoginResponses :
       Responded(t, r) =>
         consecutive_rate_limits' =
           IF r.status = "429" THEN consecutive_rate_limits + 1 ELSE 0]_vars

\* C26, amended: each 429 adds one to the counter; a response below error
\* status of an authenticated request, and a login or refresh response whose
\* token pair was stored, set it to 0; every other response (401, 403, 5xx,
\* a 2xx login or refresh response without the token fields) and a timeout
\* leave it as it is.
C26_ResetOnSuccessOnly ==
  [][\A t \in Tasks, r \in RefreshResponses \cup LoginResponses :
       (request_response(t, r) \/ refresh_response(t, r)
          \/ login_response(t, r)) =>
         consecutive_rate_limits' =
           IF r.status = "429" THEN consecutive_rate_limits + 1
           ELSE IF r.status = "200" THEN 0
           ELSE consecutive_rate_limits]_vars

\* a caller has just got a 401 after an earlier 429: the count is still 1
C26_Witness ==
  /\ event.task \in Callers
  /\ event.outcome = "AuthError"
  /\ consecutive_rate_limits = 1

\* C27: a 429 answered to an authenticated request, a login or a refresh
\* while k consecutive 429s were counted raises RateLimitError with
\* max(hint or 0, min(60 * 2^k, 300) * jitter) and leaves the count at k + 1;
\* the value, seen in the window the handler of the operation opens with it,
\* is neither below the hint nor below 0.75 * min(60 * 2^k, 300).
C27_RetryAfterOf429 ==
  [][\A t \in {Poller} \cup Commands,
        r \in {x \in ReqResponses : x.status = "429"} :
       Responded(t, r) =>
         LET k == consecutive_rate_limits
             unjittered == Min(RATE_LIMIT_BACKOFF_BASE * Pow2(k),
                               RATE_LIMIT_BACKOFF_MAX)
             retryAfter == rate_limit_until' - now
         IN /\ consecutive_rate_limits' = k + 1
            /\ event'.task = t
            /\ rate_limited'
            /\ retryAfter = Max(Sec(r.hint), unjittered * r.jitter)
            /\ retryAfter >= Sec(r.hint)
            /\ retryAfter >= 75 * unjittered]_vars

\* the second consecutive 429, without a hint and with the draw 1.20: the
\* window is 120 s * 1.20 long
C27_Witness ==
  /\ consecutive_rate_limits = 2
  /\ rate_limited
  /\ rate_limit_until = now + 120 * 120
  /\ event.task \in {Poller} \cup Commands

\* outcomes of an attempt the retry loop treats as transient: the 10 s
\* timeout and an HTTP status >= 400 other than 401 and 429
TransientResponses == {r \in ReqResponses : r.status \in {"500", "timeout"}}

\* C28: the attempts of _request are numbered 0..RETRY_ATTEMPTS-1 and each
\* is sent once; a transient failure of an attempt other than the last
\* releases the permit and sleeps, after which the next attempt is sent
\* anew; a transient failure of the last attempt raises ConnectionError with
\* no sleep; a success on any attempt returns at once.
C28_ThreeAttemptsThenConnectionError ==
  /\ [](\A t \in Tasks : attempt[t] \in 0..(RETRY_ATTEMPTS - 1))
  /\ [][\A t \in Tasks :
          /\ \A r \in TransientResponses :
               request_response(t, r) =>
                 IF attempt[t] < RETRY_ATTEMPTS - 1
                 THEN /\ pc'[t] = "req_sleep"
                      /\ held'[t] = 0
                      /\ attempt'[t] = attempt[t]
                 ELSE /\ pc'[t] = "idle"
                      /\ event'.task = t
                      /\ event'.outcome = "ConnectionError"
          /\ request_retry(t) =>
               /\ pc'[t] = "sem_wait"
               /\ attempt'[t] = attempt[t] + 1
          /\ request_send(t) => pc'[t] = "req_wait" /\ held'[t] = held[t] + 1
          /\ (pc[t] = "req_sleep" /\ pc'[t] # pc[t]) => request_retry(t)
          /\ \A r \in {x \in ReqResponses : x.status = "200"} :
               request_response(t, r) =>
                 /\ pc'[t] = "idle"
                 /\ event'.task = t
                 /\ event'.outcome = "ok"]_vars

\* a call has just raised ConnectionError after three failed attempts of
\* its request, no refresh or login being involved
C28_Witness ==
  /\ event.task \in Callers
  /\ event.outcome = "ConnectionError"
  /\ faults = RETRY_ATTEMPTS
  /\ refresh_posts = 0
  /\ ticks = 0

\* the attempt of refresh_access_token made by t has just failed
\* transiently: the POST /refresh timed out or was answered with an HTTP
\* error other than 401 and 429, or the 10 s of the attempt ran out during
\* the login it fell back to
RefreshFailedTransiently(t) ==
  \/ \E r \in TransientResponses : refresh_response(t, r)
  \/ /\ held[t] = 2
     /\ \E r \in {x \in LoginResponses : x.status = "timeout"} :
          login_response(t, r)

\* C29: refresh_access_token sleeps and posts again only after a transient
\* failure and only while fewer than RETRY_ATTEMPTS attempts were made; the
\* transient failure of the last attempt raises ConnectionError; a 429 on
\* any attempt raises RateLimitError at once.
C29_RefreshRetriesTransientOnly ==
  [][\A t \in Tasks :
       /\ RefreshFailedTransiently(t) =>
            IF attempt[t] < RETRY_ATTEMPTS - 1
            THEN pc'[t] = "rf_sleep" /\ attempt'[t] = attempt[t]
            ELSE /\ pc'[t] = "idle"
                 /\ event'.task = t
                 /\ event'.outcome = "ConnectionError"
       /\ (pc[t] # "rf_sleep" /\ pc'[t] = "rf_sleep") =>
            RefreshFailedTransiently(t)
       /\ (pc[t] = "rf_sleep" /\ pc'[t] # "rf_sleep") =>
            /\ pc'[t] = "rf_sem"
            /\ attempt'[t] = attempt[t] + 1
       /\ refresh_send(t) => attempt[t] <= RETRY_ATTEMPTS - 1
       /\ \A r \in {x \in RefreshResponses : x.status = "429"} :
            refresh_response(t, r) =>
              /\ pc'[t] = "idle"
              /\ event'.task = t
              /\ event'.outcome = "RateLimitError"]_vars

\* a call has just raised ConnectionError after three refresh requests of
\* its own that all failed
C29_Witness ==
  /\ event.task \in Callers
  /\ event.outcome = "ConnectionError"
  /\ refresh_posts = RETRY_ATTEMPTS
  /\ faults = RETRY_ATTEMPTS
  /\ ops = 1

\* C30 as stated: a refresh rejected with 401 goes to one login when
\* credentials are stored and raises AuthError when not; whatever the login
\* ends with ends the refresh too: the caller goes on with the new pair or
\* gets the login's exception, and no refresh request follows.
C30_OneLoginEndsRefresh ==
  [][\A t \in Tasks :
       /\ \A r \in {x \in RefreshResponses : x.status = "401"} :
            refresh_response(t, r) =>
              IF credentials
              THEN pc'[t] = "login_sem"
              ELSE pc'[t] = "idle" /\ event'.outcome = "AuthError"
       /\ \A r \in LoginResponses :
            login_response(t, r) => pc'[t] \in {"sem_wait", "idle"}]_vars

\* positions of a task with an HTTP request on the wire
OnTheWire == {"req_wait", "rf_wait", "login_wait"}

\* C31: the stages of a poll cycle follow one another, each request being
\* sent only after the one before was answered: zones first, then for one
\* device after the other its detail followed by its profile; when the
\* detail request of a device goes out the zone list is held and every
\* device fetched before has both its detail and its profile, when a profile
\* request goes out the detail of that device was fetched once; the cycle is
\* at one position at a time, so it has at most one request on the wire.
C31_PollRequestsSequential ==
  /\ [](/\ Cardinality({p \in OnTheWire : pc[Poller] = p}) <= 1
        /\ stage[Poller] \in {"none", "zones", "detail", "profile"}
        /\ stage[Poller] \in {"detail", "profile"} =>
             /\ p_zones # <<>>
             /\ p_serial \in ZoneSerials(p_zones)
             /\ p_serial \notin DOMAIN p_devices
             /\ DOMAIN p_devices = DOMAIN p_profiles
             /\ p_calls[p_serial].detail = 1
             /\ \A s \in DOMAIN p_devices :
                  p_calls[s] = [detail |-> 1, profile |-> 1]
        /\ stage[Poller] = "detail" => p_calls[p_serial].profile = 0
        /\ stage[Poller] = "profile" => p_calls[p_serial].profile = 1)
  /\ [][stage'[Poller] # stage[Poller] =>
          /\ stage'[Poller] \in {"detail", "profile"} =>
               pc[Poller] = "req_wait"
          /\ <<stage[Poller], stage'[Poller]>> \in
               {<<"none", "zones">>, <<"zones", "detail">>,
                <<"detail", "profile">>, <<"profile", "detail">>,
                <<"zones", "none">>, <<"detail", "none">>,
                <<"profile", "none">>}
          /\ <<stage[Poller], stage'[Poller]>> = <<"profile", "detail">> =>
               /\ p_serial' # p_serial
               /\ p_serial \in DOMAIN p_devices'
               /\ p_serial \in DOMAIN p_profiles']_vars

\* the detail request of the second device is on the wire, the first
\* device's detail and profile being held
C31_Witness ==
  /\ pc[Poller] = "req_wait"
  /\ stage[Poller] = "detail"
  /\ p_serial = "d2"
  /\ "d1" \in DOMAIN p_devices
  /\ "d1" \in DOMAIN p_profiles

\* the device request of the targeted refresh of t is answered 200
RefreshAnswered(t) ==
  /\ stage[t] = "refresh"
  /\ \E r \in {x \in ReqResponses : x.status = "200"} :
       request_response(t, r)

\* C32: the answer to the one device request of a targeted refresh puts the
\* fetched detail in devices[serial], leaves the entries of the other serials
\* and device_profiles as they are, changes in the zones nothing but the
\* reported adapter fields of a zone of that serial (to the fetched values),
\* publishes the three fields as coordinator.data and notifies the
\* listeners; no zone list or profile request belongs to the refresh.
C32_RefreshDeviceFrame ==
  [][\A t \in Commands : RefreshAnswered(t) =>
       LET s == c_serial[t]
       IN /\ devices'[s] = cmd_seq
          /\ DOMAIN devices' = DOMAIN devices \cup {s}
          /\ \A x \in DOMAIN devices \ {s} : devices'[x] = devices[x]
          /\ device_profiles' = device_profiles
          /\ Len(zones') = Len(zones)
          /\ \A i \in 1..Len(zones) :
               \/ zones'[i] = zones[i]
               \/ /\ HasAdapter(zones[i])
                  /\ zones[i].adapter.deviceSerial = s
                  /\ zones'[i] = [zones[i] EXCEPT !.adapter.reported = cmd_seq]
          /\ \E i \in 1..Len(zones) :
               /\ HasAdapter(zones[i]) /\ zones[i].adapter.deviceSerial = s
               => \E k \in 1..Len(zones) :
                    /\ zones'[k].adapter.deviceSerial = s
                    /\ zones'[k].adapter.reported = cmd_seq
          /\ data' = CacheOf(zones', devices', device_profiles')
          /\ event' = [task |-> t, outcome |-> "ok", reauth |-> FALSE,
                       notify |-> TRUE]
          /\ pc'[t] = "idle"
          /\ UNCHANGED <<p_zones, p_devices, p_profiles, p_serial, p_detail,
                         p_calls, rate_limited, rate_limit_until,
                         auth_failures>>]_vars

\* the refresh after a command to d1 has just succeeded: d1's entry and the
\* first zone of d1 hold the state after the command, d2's entry is the old
\* one, the listeners were notified
C32_Witness ==
  /\ event.task \in Commands
  /\ event.notify
  /\ cmd_seq = 1
  /\ DOMAIN devices = {"d1", "d2"}
  /\ devices["d1"] = 1
  /\ devices["d2"] = 0
  /\ zones[1].adapter.reported = 1
  /\ zones[3].adapter.reported = 0

\* a poll cycle that made requests ends
PollEnds == pc[Poller] # "idle" /\ pc'[Poller] = "idle"

\* C33: a poll cycle gives the host its data or UpdateFailed and nothing
\* else: a cycle that ends without publishing, whatever error of the API
\* client ended it (rate limit, authentication, connection, or another
\* exception such as the KeyError of a malformed refresh response), ends
\* with UpdateFailed and leaves coordinator.data as it was.
C33_PollErrorsAreUpdateFailed ==
  /\ [](event.task = Poller =>
          event.outcome \in {"ok", "cached", "UpdateFailed"})
  /\ [][PollEnds =>
         /\ event'.task = Poller
         /\ \/ /\ event'.outcome = "ok"
               /\ data' = CacheOf(zones', devices', device_profiles')
            \/ /\ event'.outcome = "UpdateFailed"
               /\ data' = data]_vars

\* the second cycle of the poller asked for a new token pair, the response
\* had an access token and no refresh token (KeyError in the refresh), and
\* the cycle ended with UpdateFailed, no window and no counted failure
C33_Witness ==
  /\ event.task = Poller
  /\ event.outcome = "UpdateFailed"
  /\ ops = 2
  /\ cmds = 0
  /\ access_token = 2
  /\ refresh_token = 1
  /\ ~rate_limited
  /\ auth_failures = 0

\* C34: a computed delay (in hundredths of a second) is at most the maximum
\* it was computed with, 16 s for the retry schedule and 300 s for the
\* rate-limit schedule, at every count and for every draw.
C34_DelayWithinMaximum ==
  [](backoff.delay # -1 => backoff.delay <= Sec(backoff.cap))

\* the operations under way
Busy == {t \in Commands \cup {Poller} : pc[t] # "idle"}

\* C35: while an operation is under way some task can take a step (no state
\* has every task blocked on the lock, the request permits or each other),
\* and with the event loop's scheduling every poll cycle and every command,
\* with the token check and the requests they make, comes to its end.
C35_NoDeadlockNoStuckOperation ==
  /\ [](Busy # {} => \E t \in Busy : ENABLED TaskStep(t))
  /\ \A t \in Commands \cup {Poller} : (pc[t] # "idle") ~> (pc[t] = "idle")

\* the poll cycle holds the refresh lock and one permit and waits for a
\* second permit for its fallback login, while the command's request holds
\* the other permit
C35_Witness ==
  /\ pc[Poller] = "login_sem"
  /\ lock_owner = Poller
  /\ held[Poller] = 1
  /\ permits = 0
  /\ \E t \in Commands : pc[t] = "req_wait" /\ held[t] = 1

\* C36: a devices entry that holds the state fetched after the last command
\* (stored by the targeted refresh that followed the command) is not
\* replaced by a detail fetched before that command: no step takes the
\* entry of a serial back to an earlier fetch.
C36_RefreshedDetailNotOverwritten ==
  [][\A s \in DOMAIN devices \cap DOMAIN devices' :
       (cmd_seq > 0 /\ devices[s] = cmd_seq) => devices'[s] >= devices[s]]_vars

\* C37: while token_expires_at is unset (the pair was restored by the host
\* without an expiry) no task waits for or holds the refresh lock and none
\* is inside refresh_access_token or login, whatever the clock shows, so the
\* expiry stays unset; token_expires_at changes only where a login or a
\* refresh stores a new pair, and then to now + TOKEN_REFRESH_INTERVAL.
C37_UnknownExpiryNeverRefreshes ==
  /\ [](token_expires_at = NoTime =>
          /\ lock_owner = None
          /\ refresh_posts = 0
          /\ \A t \in Tasks : pc[t] \notin RefreshPcs \cup {"lock_wait"})
  /\ [][token_expires_at' # token_expires_at =>
          /\ token_expires_at # NoTime
          /\ \E t \in Tasks : pc[t] \in {"rf_wait", "login_wait"}
          /\ issued' = issued + 1
          /\ access_token' = issued'
          /\ refresh_token' = issued'
          /\ token_expires_at' = now + Sec(TOKEN_REFRESH_INTERVAL)]_vars

\* a request made with the restored token at a time when a pair with a
\* known expiry would be refreshed
C37_Witness ==
  /\ token_expires_at = NoTime
  /\ now >= Sec(TOKEN_REFRESH_INTERVAL - TOKEN_EXPIRY_MARGIN)
  /\ \E t \in Tasks : pc[t] = "req_wait" /\ bearer[t] = access_token
  /\ issued = 1

\* the write of a command has just succeeded
WriteSucceeded == \E t \in Commands : pc[t] # "settle" /\ pc'[t] = "settle"

\* the step is taken by a targeted refresh
RefreshDeviceStep ==
  \E t \in Commands :
    /\ (pc[t] = "settle" \/ stage[t] = "refresh")
    /\ pc'[t] # pc[t]

\* C38: the counter changes in two ways only: a poll cycle or a command
\* that ends with AuthError adds one, and a poll cycle that publishes or a
\* command write that succeeds sets it to 0; operations ending with a
\* connection or rate-limit error (a request answered 429, 5xx or not at
\* all) and targeted refreshes leave it as it is.
\* The operation that adds one signals re-authentication exactly when the
\* new count is at least max_auth_failures, at the third failure and at
\* every failure after it, and no other step signals it.
C38_ReauthSignalAndCounter ==
  /\ [][auth_failures' # auth_failures =>
          \/ /\ auth_failures' = auth_failures + 1
             /\ event'.task \in Commands \cup {Poller}
             /\ event'.outcome \in {"UpdateFailed", "AuthError"}
             /\ event'.reauth <=> auth_failures' >= max_auth_failures
          \/ /\ auth_failures' = 0
             /\ PollPublished \/ WriteSucceeded]_vars
  /\ [][event'.reauth => auth_failures' = auth_failures + 1]_vars
  /\ [][PollPublished \/ WriteSucceeded => auth_failures' = 0]_vars
  /\ [][RefreshDeviceStep => auth_failures' = auth_failures]_vars
  /\ [][\A t \in Commands \cup {Poller} :
          \A r \in {x \in ReqResponses : x.status \in {"429", "500", "timeout"}} :
            request_response(t, r) => auth_failures' = auth_failures]_vars

\* the fourth consecutive AuthError: re-authentication is signalled again
C38_Witness ==
  /\ auth_failures = max_auth_failures + 1
  /\ event.reauth
  /\ signals_in_run = 2

\* zone i of the list references serial s through its adapter
References(i, s) == HasAdapter(zones[i]) /\ zones[i].adapter.deviceSerial = s

\* C39: a targeted refresh of a serial changes at most one zone, which is the
\* first zone of the list that references the serial, and that zone gets the
\* fetched values; every other zone, a later zone of the same serial
\* included, stays as it was.
C39_OnlyFirstZonePatched ==
  [][\A t \in Commands : RefreshAnswered(t) =>
       LET s == c_serial[t]
           changed == {i \in 1..Len(zones) : zones'[i] # zones[i]}
       IN /\ Len(zones') = Len(zones)
          /\ Cardinality(changed) <= 1
          /\ \A i \in changed :
               /\ References(i, s)
               /\ \A k \in 1..(i - 1) : ~References(k, s)
          /\ \A i \in 1..Len(zones) :
               (References(i, s) /\ \A k \in 1..(i - 1) : ~References(k, s))
                 => zones'[i].adapter.reported = cmd_seq]_vars

\* two zones of unit d1: after the refresh that followed the command the
\* first one shows the new state, its sibling still the old one
C39_Witness ==
  /\ event.task \in Commands
  /\ event.notify
  /\ Len(zones) = 3
  /\ zones[1].adapter.deviceSerial = "d1"
  /\ zones[2].adapter.deviceSerial = "d1"
  /\ zones[1].adapter.reported = cmd_seq
  /\ zones[2].adapter.reported < cmd_seq

\* C40: while no access token is stored no task gets past the first test of
\* _ensure_token_valid: nobody waits for or holds the refresh lock, no
\* permit is out, no refresh, login or data request is made, and a call that
\* reaches the test ends with AuthError and leaves the token fields as they
\* are, whether or not a refresh token or credentials are stored.
C40_NoTokenRaisesAuthError ==
  /\ [](access_token = NoToken =>
          /\ \A t \in Tasks : pc[t] \in {"idle", "ensure"} /\ held[t] = 0
          /\ lock_owner = None
          /\ permits = MAX_CONCURRENT_REQUESTS
          /\ refresh_posts = 0)
  /\ [][\A t \in Callers :
          (access_token = NoToken /\ pc[t] = "ensure" /\ pc'[t] # "ensure") =>
            /\ pc'[t] = "idle"
            /\ event' = [task |-> t, outcome |-> "AuthError",
                         reauth |-> FALSE, notify |-> FALSE]
            /\ UNCHANGED <<tokenVars, faults>>]_vars

\* a call on a client that holds a refresh token and credentials and no
\* access token has just ended with AuthError
C40_Witness ==
  /\ access_token = NoToken
  /\ refresh_token # NoToken
  /\ credentials
  /\ event.task \in Callers
  /\ event.outcome = "AuthError"

====
